---- MODULE Spec2Model ----
(***************************************************************************)
(* A model of flask.py: the Flask application object (registries, debug    *)
(* flag), the request context and the thread-local context stack, the      *)
(* context-local proxies, and the dispatch pipeline of Flask.wsgi_app.     *)
(***************************************************************************)
EXTENDS Integers, Sequences, FiniteSets, TLC

(***************************************************************************)
(* Bounds of the model.                                                    *)
(***************************************************************************)
\* longest list of before-request or after-request functions
MaxHooks == 2
\* number of request contexts constructed in one behaviour
MaxCtx == 2
\* calls of flash and get_flashed_messages that the application code of one
\* request makes
MaxCalls == 3

Threads == {"t1", "t2"}
\* status codes an error handler can be registered for / an HTTPException carries
Codes == {404, 500}
\* request path of the WSGI environments handed to the application: it
\* matches the rule "/" once that rule is registered, and nothing before
Paths == {"/"}
\* the one URL rule applications register; route names the endpoint after
\* the view function
Rules == {"/"}
\* an application with a second rule, which has a variable part, and the
\* paths requested of it: one for each rule and one that no rule matches
RoutingRules == {"/", "/user/<name>"}
RoutingPaths == {"/", "/user/a", "/missing"}
EndpointOf(rule) == IF rule = "/user/<name>" THEN "user" ELSE "index"
\* url_adapter.match(): the rule a path is an instance of, and the values
\* of the variable parts
RuleOf(path) == IF path = "/user/a" THEN "/user/<name>" ELSE path
ValuesOf(path) == IF path = "/user/a" THEN "{'name': 'a'}" ELSE "{}"

(***************************************************************************)
(* Python values that hooks, views and error handlers return.              *)
(***************************************************************************)
Value(type, body, status, headers) ==
    [type |-> type, body |-> body, status |-> status, headers |-> headers]

None == Value("NoneType", "", 0, <<>>)
Str(s) == Value("str", s, 0, <<>>)
IntVal(n) == Value("int", "", n, <<>>)
Tuple(body, status) == Value("tuple", body, status, <<>>)
\* werkzeug HTTPException instances are WSGI applications carrying a code
HTTPExceptionValue(code) == Value("HTTPException", "", code, <<>>)

\* Response(ResponseBase): Response(body) has status 200,
\* Response(body, status) the status given
Response(body, status) == Value("Response", body, status, <<>>)

\* exceptions in flight
NoExc == [kind |-> "none", code |-> 0]
HTTPException(code) == [kind |-> "HTTPException", code |-> code]
Exception == [kind |-> "Exception", code |-> 0]
\* TypeError raised by force_type when the value is no WSGI application
TypeError == [kind |-> "TypeError", code |-> 0]
\* KeyError raised by view_functions[endpoint]
KeyError == [kind |-> "KeyError", code |-> 0]

\* Python truth value of a returned value
Truthy(v) ==
    CASE v.type = "NoneType" -> FALSE
      [] v.type = "str" -> v.body # ""
      [] v.type = "int" -> v.status # 0
      [] OTHER -> TRUE

\* the outcome of a call: the exception raised, or the value returned
Returns(v) == [raised |-> NoExc, value |-> v]
Raises(e) == [raised |-> e, value |-> None]

\* a make_response that takes a tuple for its first element, a text
make_response_tuple_as_text(rv) ==
    CASE rv.type = "Response" -> Returns(rv)
      [] rv.type \in {"str", "tuple"} -> Returns(Response(rv.body, 200))
      [] rv.type = "HTTPException" ->
            Returns(Response("error page", rv.status))
      [] OTHER -> Raises(TypeError)

\* a make_response that builds a new response, of the default status, from
\* the body of a response object
make_response_rebuilding(rv) ==
    CASE rv.type = "Response" -> Returns(Response(rv.body, 200))
      [] rv.type = "str" -> Returns(Response(rv.body, 200))
      [] rv.type = "tuple" -> Returns(Response(rv.body, rv.status))
      [] rv.type = "HTTPException" ->
            Returns(Response("error page", rv.status))
      [] OTHER -> Raises(TypeError)

\* Flask.make_response
make_response(rv) ==
    CASE rv.type = "Response" -> Returns(rv)
      [] rv.type = "str" -> Returns(Response(rv.body, 200))
      [] rv.type = "tuple" -> Returns(Response(rv.body, rv.status))
      [] rv.type = "HTTPException" ->
            \* force_type runs the exception as a WSGI application
            Returns(Response("error page", rv.status))
      [] OTHER -> Raises(TypeError)

(***************************************************************************)
(* State.                                                                  *)
(***************************************************************************)
VARIABLES
    \* Flask application
    debug,                  \* Flask.debug
    secret_key,             \* Flask.secret_key is set
    view_functions,         \* set of endpoints with a view function
    error_handlers,         \* set of codes with an error handler
    before_request_funcs,   \* sequence of function ids
    after_request_funcs,    \* sequence of function ids
    template_context_processors,    \* sequence of function ids
    url_map,                \* set of rules added to the Map
    serving,                \* setup is over, requests are dispatched
    \* context locals
    ctxs,                   \* every _RequestContext constructed, by id
    stack,                  \* _request_ctx_stack: one list per thread
    \* one activation of wsgi_app / user code per thread
    pc,                     \* position of the thread
    ctx,                    \* id of the context of the with statement
    idx,                    \* index of the hook the loop is at
    rv,                     \* local rv of wsgi_app
    response,               \* local response of wsgi_app
    exc,                    \* exception in flight
    \* history of the current dispatch
    log,                    \* calls made by the dispatch, in order
    stack0,                 \* the thread's stack when wsgi_app was called
    seen,                   \* the contexts the proxies resolved to
    scopes,                 \* open with-blocks of user code on the thread
    popped,                 \* result of the last explicit __exit__ on the thread
    accessed,               \* result of the last proxy access by user code
    \* sessions and flashed messages
    cookie,                 \* '_flashes' of the session cookie the client holds
    set_cookie,             \* the cookie save_session put into the response
    cookie0,                \* the client's cookie when wsgi_app was called
    flashlog                \* calls of flash and get_flashed_messages, in order

appvars == <<debug, secret_key, view_functions, error_handlers,
             before_request_funcs, after_request_funcs,
             template_context_processors, url_map>>
framevars == <<pc, ctx, idx, rv, response, exc>>
histvars == <<log, stack0, seen>>
uservars == <<scopes, popped, accessed>>
flashvars == <<cookie, set_cookie, cookie0, flashlog>>
vars == <<appvars, serving, ctxs, stack, framevars, histvars, uservars,
          flashvars>>

(***************************************************************************)
(* werkzeug.LocalStack: a list per thread.                                 *)
(***************************************************************************)
\* the empty-stack result of LocalStack.top and LocalStack.pop (None)
NoCtx == 0

\* the list of the calling thread
LocalStack(s, t) == s[t]

\* a stack that is one list for the whole process instead of one per thread
push_shared(s, t, c) == [u \in Threads |-> Append(s[u], c)]

push(s, t, c) == [s EXCEPT ![t] = Append(LocalStack(s, t), c)]

\* LocalStack.top: the last item, None when the list is empty
top(s, t) ==
    IF LocalStack(s, t) = <<>> THEN NoCtx
    ELSE LocalStack(s, t)[Len(LocalStack(s, t))]

\* LocalStack.pop: removes and returns the last item; on an empty list it
\* returns None and changes nothing
pop(s, t) ==
    IF LocalStack(s, t) = <<>> THEN s
    ELSE [s EXCEPT ![t] = SubSeq(LocalStack(s, t), 1, Len(LocalStack(s, t)) - 1)]

(***************************************************************************)
(* _RequestContext and the context-local proxies.                          *)
(***************************************************************************)
NoSession == [id |-> 0, flashes |-> <<>>, modified |-> FALSE]

\* Flask.open_session: None without a secret key, else the cookie's session
open_session(id) ==
    IF secret_key THEN [id |-> id, flashes |-> cookie, modified |-> FALSE]
    ELSE NoSession

\* Request.__init__: endpoint and view_args start as None
Request(id, path) ==
    [id |-> id, path |-> path, endpoint |-> "None", view_args |-> "None"]

\* _RequestContext.flashes: None until get_flashed_messages has pulled the
\* messages, then the list it pulled
NoFlashes == [pulled |-> FALSE, messages |-> <<>>]

\* no Set-Cookie header for the session in the response
NoCookie == [set |-> FALSE, flashes |-> <<>>]

\* _RequestContext.__init__
RequestContext(id, path) ==
    [id |-> id,
     app |-> "app",
     request |-> Request(id, path),
     session |-> open_session(id),
     g |-> id,
     flashes |-> NoFlashes]

\* the proxies: each access resolves through the top of the caller's stack
current_app(t) == ctxs[top(stack, t)].app
request(t) == ctxs[top(stack, t)].request
session(t) == ctxs[top(stack, t)].session
g(t) == ctxs[top(stack, t)].g

\* what a hook, view or handler running on thread t finds behind the proxies
Resolve(t) ==
    IF top(stack, t) = NoCtx THEN [request |-> 0, session |-> 0, g |-> 0]
    ELSE [request |-> request(t).id, session |-> session(t).id, g |-> g(t)]

\* what None.app, None.request, ... raise
AttributeError == [kind |-> "AttributeError", code |-> 0]

\* the objects behind the four proxies; NoObjects: nothing was obtained
NoObjects == [app |-> "None", request |-> 0, session |-> 0, g |-> 0]

\* the outcome of an access by user code: what it raised, the objects it
\* got, and for the record the top of the stack at the time (at), the stack
\* it left (left) and the request the access before it got (prev)
NoAccess == [raised |-> NoExc, value |-> NoObjects, at |-> -1, left |-> <<>>,
             prev |-> 0]

\* proxies that keep the object they resolved to first
LocalProxy_caching(t) ==
    IF accessed[t].value # NoObjects
    THEN [raised |-> NoExc, value |-> accessed[t].value]
    ELSE IF top(stack, t) = NoCtx
    THEN [raised |-> AttributeError, value |-> NoObjects]
    ELSE [raised |-> NoExc,
          value |-> [app |-> current_app(t), request |-> request(t).id,
                     session |-> session(t).id, g |-> g(t)]]

\* proxies that answer with empty objects when there is no context
LocalProxy_defaulting(t) ==
    IF top(stack, t) = NoCtx
    THEN [raised |-> NoExc, value |-> NoObjects]
    ELSE [raised |-> NoExc,
          value |-> [app |-> current_app(t), request |-> request(t).id,
                     session |-> session(t).id, g |-> g(t)]]

\* LocalProxy(lambda: _request_ctx_stack.top.<attr>): every access calls the
\* lambda; on an empty stack top is None and the attribute lookup raises
LocalProxy(t) ==
    IF top(stack, t) = NoCtx
    THEN [raised |-> AttributeError, value |-> NoObjects]
    ELSE [raised |-> NoExc,
          value |-> [app |-> current_app(t), request |-> request(t).id,
                     session |-> session(t).id, g |-> g(t)]]

\* a context no stack refers to any more is reclaimed
Retired ==
    [id |-> 0, app |-> "app", request |-> Request(0, "/"), session |-> NoSession,
     g |-> 0, flashes |-> NoFlashes]

OnSomeStack(s, c) ==
    \E t \in Threads : \E i \in 1..Len(s[t]) : s[t][i] = c

Reclaim(store, s, c) ==
    IF c = NoCtx \/ OnSomeStack(s, c) THEN store
    ELSE [store EXCEPT ![c] = Retired]

\* an __exit__ that pops only when no exception is in flight
exit_pops_clean_only(tb) == tb = NoExc

\* an __exit__ that pops whatever the debug flag says
exit_pops_always(tb) == TRUE

\* _RequestContext.__exit__: pop unless an exception is in flight in debug mode
exit_pops(tb) == (tb = NoExc) \/ ~debug

\* what the last __exit__ called by user code did: whether the stack was
\* empty, the item LocalStack.pop returned (-1: no pop), what it raised
NoPop == [empty |-> FALSE, item |-> -1, raised |-> NoExc]

(***************************************************************************)
(* Initial state: a freshly constructed Flask object, no request yet.      *)
(***************************************************************************)
Init ==
    /\ debug = FALSE
    /\ secret_key = FALSE
    /\ view_functions = {}
    /\ error_handlers = {}
    /\ before_request_funcs = <<>>
    /\ after_request_funcs = <<>>
    /\ template_context_processors = <<0>>
    /\ url_map = {}
    /\ serving = FALSE
    /\ ctxs = <<>>
    /\ stack = [t \in Threads |-> <<>>]
    /\ pc = [t \in Threads |-> "idle"]
    /\ ctx = [t \in Threads |-> NoCtx]
    /\ idx = [t \in Threads |-> 0]
    /\ rv = [t \in Threads |-> None]
    /\ response = [t \in Threads |-> None]
    /\ exc = [t \in Threads |-> NoExc]
    /\ log = [t \in Threads |-> <<>>]
    /\ stack0 = [t \in Threads |-> <<>>]
    /\ seen = [t \in Threads |-> {}]
    /\ scopes = [t \in Threads |-> <<>>]
    /\ popped = [t \in Threads |-> NoPop]
    /\ accessed = [t \in Threads |-> NoAccess]
    /\ cookie = <<>>
    /\ set_cookie = [t \in Threads |-> NoCookie]
    /\ cookie0 = [t \in Threads |-> <<>>]
    /\ flashlog = [t \in Threads |-> <<>>]

(***************************************************************************)
(* Setup: registration on the application object before serving.           *)
(***************************************************************************)
rest == <<template_context_processors, serving, ctxs, stack,
          framevars, histvars, uservars, flashvars>>

SetDebug ==
    /\ ~serving /\ ~debug
    /\ debug' = TRUE
    /\ UNCHANGED <<secret_key, view_functions, error_handlers,
                   before_request_funcs, after_request_funcs, url_map, rest>>

SetSecretKey ==
    /\ ~serving /\ ~secret_key
    /\ secret_key' = TRUE
    /\ UNCHANGED <<debug, view_functions, error_handlers,
                   before_request_funcs, after_request_funcs, url_map, rest>>

\* a registration that puts the new function first
before_request_prepending ==
    /\ ~serving /\ Len(before_request_funcs) < MaxHooks
    /\ before_request_funcs' =
           <<Len(before_request_funcs) + 1>> \o before_request_funcs
    /\ UNCHANGED <<debug, secret_key, view_functions, error_handlers,
                   after_request_funcs, url_map, rest>>

\* each registration registers a new function, named by its number
before_request ==
    /\ ~serving /\ Len(before_request_funcs) < MaxHooks
    /\ before_request_funcs' =
           Append(before_request_funcs, Len(before_request_funcs) + 1)
    /\ UNCHANGED <<debug, secret_key, view_functions, error_handlers,
                   after_request_funcs, url_map, rest>>

\* a registration that puts the new function first
after_request_prepending ==
    /\ ~serving /\ Len(after_request_funcs) < MaxHooks
    /\ after_request_funcs' =
           <<Len(after_request_funcs) + 1>> \o after_request_funcs
    /\ UNCHANGED <<debug, secret_key, view_functions, error_handlers,
                   before_request_funcs, url_map, rest>>

after_request ==
    /\ ~serving /\ Len(after_request_funcs) < MaxHooks
    /\ after_request_funcs' =
           Append(after_request_funcs, Len(after_request_funcs) + 1)
    /\ UNCHANGED <<debug, secret_key, view_functions, error_handlers,
                   before_request_funcs, url_map, rest>>

errorhandler(code) ==
    /\ ~serving /\ code \notin error_handlers
    /\ error_handlers' = error_handlers \cup {code}
    /\ UNCHANGED <<debug, secret_key, view_functions,
                   before_request_funcs, after_request_funcs, url_map, rest>>

\* the function 0 is _default_template_ctx_processor, there from the start
context_processor ==
    /\ ~serving /\ Len(template_context_processors) <= MaxHooks
    /\ template_context_processors' =
           Append(template_context_processors, Len(template_context_processors))
    /\ UNCHANGED <<debug, secret_key, view_functions, error_handlers,
                   before_request_funcs, after_request_funcs, url_map,
                   serving, ctxs, stack, framevars, histvars, uservars,
                   flashvars>>

\* add_url_rule: the rule is added to the Map
add_url_rule(map, rule) == map \cup {rule}

\* the route decorator: add_url_rule, then the view function is registered
route(rule) ==
    /\ ~serving /\ EndpointOf(rule) \notin view_functions
    /\ url_map' = add_url_rule(url_map, rule)
    /\ view_functions' = view_functions \cup {EndpointOf(rule)}
    /\ UNCHANGED <<debug, secret_key, error_handlers,
                   before_request_funcs, after_request_funcs, rest>>

StartServing ==
    /\ ~serving
    /\ serving' = TRUE
    /\ UNCHANGED <<appvars, ctxs, stack, framevars, histvars, uservars,
                   flashvars>>

Setup ==
    \/ SetDebug
    \/ SetSecretKey
    \/ before_request
    \/ after_request
    \/ \E code \in Codes : errorhandler(code)
    \/ \E rule \in Rules : route(rule)
    \/ StartServing

(***************************************************************************)
(* What application code can do when it is called.                         *)
(***************************************************************************)
\* a before-request function returns nothing, or a value, or raises
BeforeOutcomes ==
    {Returns(v) : v \in {None, Str(""), IntVal(0), Str("hello")}}
        \cup {Raises(e) : e \in {HTTPException(404), Exception}}

\* a view function returns a value of any shape, or raises
ViewOutcomes ==
    {Returns(v) : v \in {Str("hello"), Tuple("hello", 201),
                         Response("page", 200), None}}
        \cup {Raises(e) : e \in {HTTPException(c) : c \in Codes} \cup {Exception}}

\* the error handler registered for a code returns its page, or raises
HandlerOutcomes(code) ==
    {Returns(Tuple("handled", code))}
        \cup {Raises(e) : e \in {HTTPException(404), Exception}}

\* an after-request function returns the response with its header added, or raises
AfterOutcomes(f, resp) ==
    {Returns([resp EXCEPT !.headers = Append(@, <<"after", f>>)])}
        \cup {Raises(e) : e \in {HTTPException(404), Exception}}

\* save_session writes the cookie into the response, or raises
SaveOutcomes == {Returns(None), Raises(Exception)}

\* the response object called as a WSGI application
SendOutcomes == {Returns(None), Raises(Exception)}

\* a call of the dispatch: what was called, its argument, its outcome
Event(name, n, o) == [name |-> name, arg |-> n, out |-> o]
Logged(t, name, n, o) == [log EXCEPT ![t] = Append(@, Event(name, n, o))]
Seen(t) == [seen EXCEPT ![t] = @ \cup {Resolve(t)}]

\* a test of the hook's value by its truth value
hook_returned_truthy(v) == Truthy(v)

\* the test `rv is not None` of preprocess_request
hook_returned_value(v) == v # None

\* a wsgi_app that dispatches whatever preprocess_request returned
rv_is_None_always(v) == TRUE

\* the test `rv is None` of wsgi_app
rv_is_None(v) == v = None

(***************************************************************************)
(* Flask.wsgi_app, one step of the with-block at a time.                   *)
(***************************************************************************)
\* self.request_context(environ): the context is constructed
request_context(t, path) ==
    /\ serving /\ pc[t] = "idle" /\ Len(ctxs) < MaxCtx
    /\ ctxs' = Append(ctxs, RequestContext(Len(ctxs) + 1, path))
    /\ ctx' = [ctx EXCEPT ![t] = Len(ctxs) + 1]
    /\ pc' = [pc EXCEPT ![t] = "enter"]
    /\ stack0' = [stack0 EXCEPT ![t] = LocalStack(stack, t)]
    /\ log' = [log EXCEPT ![t] = <<Event("open_session", 0, Returns(None))>>]
    /\ seen' = [seen EXCEPT ![t] = {}]
    /\ idx' = [idx EXCEPT ![t] = 0]
    /\ rv' = [rv EXCEPT ![t] = None]
    /\ response' = [response EXCEPT ![t] = None]
    /\ exc' = [exc EXCEPT ![t] = NoExc]
    /\ popped' = [popped EXCEPT ![t] = NoPop]
    /\ accessed' = [accessed EXCEPT ![t] = NoAccess]
    /\ cookie0' = [cookie0 EXCEPT ![t] = cookie]
    /\ set_cookie' = [set_cookie EXCEPT ![t] = NoCookie]
    /\ flashlog' = [flashlog EXCEPT ![t] = <<>>]
    /\ UNCHANGED <<appvars, serving, stack, scopes, cookie>>

\* an __enter__ that first removes the context an earlier failure left
Enter_popping_preserved(t) ==
    /\ UNCHANGED flashvars
    /\ pc[t] = "enter"
    /\ stack' = push(pop(stack, t), t, ctx[t])
    /\ pc' = [pc EXCEPT ![t] = "preprocess"]
    /\ idx' = [idx EXCEPT ![t] = 1]
    /\ log' = Logged(t, "push", ctx[t], Returns(None))
    /\ UNCHANGED <<appvars, serving, ctxs, ctx, rv, response, exc,
                   stack0, seen, uservars>>

\* _RequestContext.__enter__
Enter(t) ==
    /\ UNCHANGED flashvars
    /\ pc[t] = "enter"
    /\ stack' = push(stack, t, ctx[t])
    /\ pc' = [pc EXCEPT ![t] = "preprocess"]
    /\ idx' = [idx EXCEPT ![t] = 1]
    /\ log' = Logged(t, "push", ctx[t], Returns(None))
    /\ UNCHANGED <<appvars, serving, ctxs, ctx, rv, response, exc,
                   stack0, seen, uservars>>

\* preprocess_request: one before-request function is called
BeforeHook(t) ==
    /\ UNCHANGED flashvars
    /\ pc[t] = "preprocess" /\ idx[t] <= Len(before_request_funcs)
    /\ \E o \in BeforeOutcomes :
          /\ log' = Logged(t, "before", before_request_funcs[idx[t]], o)
          /\ IF o.raised # NoExc
             THEN /\ exc' = [exc EXCEPT ![t] = o.raised]
                  /\ pc' = [pc EXCEPT ![t] = "exit"]
                  /\ UNCHANGED <<rv, idx>>
             ELSE IF hook_returned_value(o.value)
             THEN /\ rv' = [rv EXCEPT ![t] = o.value]
                  /\ pc' = [pc EXCEPT ![t] =
                             IF rv_is_None(o.value) THEN "match"
                             ELSE "make_response"]
                  /\ UNCHANGED <<exc, idx>>
             ELSE /\ idx' = [idx EXCEPT ![t] = @ + 1]
                  /\ UNCHANGED <<rv, exc, pc>>
    /\ seen' = Seen(t)
    /\ UNCHANGED <<appvars, serving, ctxs, stack, ctx, response, stack0, uservars>>

\* a preprocess_request that empties the list it has gone through
PreprocessEnd_consuming(t) ==
    /\ UNCHANGED flashvars
    /\ pc[t] = "preprocess" /\ idx[t] > Len(before_request_funcs)
    /\ rv' = [rv EXCEPT ![t] = None]
    /\ pc' = [pc EXCEPT ![t] =
                IF rv_is_None(None) THEN "match" ELSE "make_response"]
    /\ before_request_funcs' = <<>>
    /\ UNCHANGED <<debug, secret_key, view_functions, error_handlers,
                   after_request_funcs, template_context_processors, url_map>>
    /\ UNCHANGED <<serving, ctxs, stack, ctx, idx, response, exc,
                   histvars, uservars>>

\* preprocess_request: the loop is over, the method returns None
PreprocessEnd(t) ==
    /\ UNCHANGED flashvars
    /\ pc[t] = "preprocess" /\ idx[t] > Len(before_request_funcs)
    /\ rv' = [rv EXCEPT ![t] = None]
    /\ pc' = [pc EXCEPT ![t] =
                IF rv_is_None(None) THEN "match" ELSE "make_response"]
    /\ UNCHANGED <<appvars, serving, ctxs, stack, ctx, idx, response, exc,
                   histvars, uservars>>

\* a match_request that stores the endpoint and forgets the values
match_request_dropping_values(t) ==
    /\ UNCHANGED flashvars
    /\ pc[t] = "match"
    /\ IF RuleOf(request(t).path) \in url_map
       THEN /\ log' = Logged(t, "match", 0, Returns(None))
            /\ ctxs' = [ctxs EXCEPT ![top(stack, t)].request =
                          [@ EXCEPT !.endpoint = EndpointOf(RuleOf(request(t).path)),
                                    !.view_args = "{}"]]
            /\ pc' = [pc EXCEPT ![t] = "view"]
            /\ UNCHANGED exc
       ELSE /\ log' = Logged(t, "match", 0, Raises(HTTPException(404)))
            /\ exc' = [exc EXCEPT ![t] = HTTPException(404)]
            /\ pc' = [pc EXCEPT ![t] = "except_http"]
            /\ UNCHANGED ctxs
    /\ UNCHANGED <<appvars, serving, stack, ctx, idx, rv, response,
                   stack0, seen, uservars>>

\* match_request: url_adapter.match() of the current context, and on success
\* the assignment to request.endpoint, request.view_args
match_request(t) ==
    /\ UNCHANGED flashvars
    /\ pc[t] = "match"
    /\ IF RuleOf(request(t).path) \in url_map
       THEN /\ log' = Logged(t, "match", 0, Returns(None))
            /\ ctxs' = [ctxs EXCEPT ![top(stack, t)].request =
                          [@ EXCEPT !.endpoint = EndpointOf(RuleOf(request(t).path)),
                                    !.view_args = ValuesOf(request(t).path)]]
            /\ pc' = [pc EXCEPT ![t] = "view"]
            /\ UNCHANGED exc
       ELSE /\ log' = Logged(t, "match", 0, Raises(HTTPException(404)))
            /\ exc' = [exc EXCEPT ![t] = HTTPException(404)]
            /\ pc' = [pc EXCEPT ![t] = "except_http"]
            /\ UNCHANGED ctxs
    /\ UNCHANGED <<appvars, serving, stack, ctx, idx, rv, response,
                   stack0, seen, uservars>>

\* dispatch_request: self.view_functions[endpoint](**values)
view(t) ==
    /\ UNCHANGED flashvars
    /\ pc[t] = "view"
    /\ IF request(t).endpoint \notin view_functions
       THEN /\ exc' = [exc EXCEPT ![t] = KeyError]
            /\ pc' = [pc EXCEPT ![t] = "except_other"]
            /\ UNCHANGED <<rv, log, seen>>
       ELSE /\ \E o \in ViewOutcomes :
                 /\ log' = Logged(t, "view",
                                  <<request(t).endpoint, request(t).view_args>>, o)
                 /\ IF o.raised = NoExc
                    THEN /\ rv' = [rv EXCEPT ![t] = o.value]
                         /\ pc' = [pc EXCEPT ![t] = "make_response"]
                         /\ UNCHANGED exc
                    ELSE /\ exc' = [exc EXCEPT ![t] = o.raised]
                         /\ pc' = [pc EXCEPT ![t] =
                                    IF o.raised.kind = "HTTPException"
                                    THEN "except_http" ELSE "except_other"]
                         /\ UNCHANGED rv
            /\ seen' = Seen(t)
    /\ UNCHANGED <<appvars, serving, ctxs, stack, ctx, idx, response,
                   stack0, uservars>>

\* an error handler whose own exception goes through the except clauses again
call_handler_recovering(t, code) ==
    /\ \E o \in HandlerOutcomes(code) :
          /\ log' = Logged(t, "errorhandler", code, o)
          /\ IF o.raised = NoExc
             THEN /\ rv' = [rv EXCEPT ![t] = o.value]
                  /\ exc' = [exc EXCEPT ![t] = NoExc]
                  /\ pc' = [pc EXCEPT ![t] = "make_response"]
             ELSE /\ exc' = [exc EXCEPT ![t] = o.raised]
                  /\ pc' = [pc EXCEPT ![t] =
                             IF code = 500 THEN "exit"
                             ELSE IF o.raised.kind = "HTTPException"
                             THEN "except_http" ELSE "except_other"]
                  /\ UNCHANGED rv
    /\ seen' = Seen(t)

\* the error handler found for a code is called with the exception
call_handler(t, code) ==
    /\ \E o \in HandlerOutcomes(code) :
          /\ log' = Logged(t, "errorhandler", code, o)
          /\ IF o.raised = NoExc
             THEN /\ rv' = [rv EXCEPT ![t] = o.value]
                  /\ exc' = [exc EXCEPT ![t] = NoExc]
                  /\ pc' = [pc EXCEPT ![t] = "make_response"]
             ELSE /\ exc' = [exc EXCEPT ![t] = o.raised]
                  /\ pc' = [pc EXCEPT ![t] = "exit"]
                  /\ UNCHANGED rv
    /\ seen' = Seen(t)

\* an except clause that falls back to the 500 handler when the code has none
except_HTTPException_fallback(t) ==
    /\ UNCHANGED flashvars
    /\ pc[t] = "except_http"
    /\ IF exc[t].code \in error_handlers THEN call_handler(t, exc[t].code)
       ELSE IF 500 \in error_handlers THEN call_handler(t, 500)
       ELSE /\ rv' = [rv EXCEPT ![t] = HTTPExceptionValue(exc[t].code)]
            /\ exc' = [exc EXCEPT ![t] = NoExc]
            /\ pc' = [pc EXCEPT ![t] = "make_response"]
            /\ UNCHANGED <<log, seen>>
    /\ UNCHANGED <<appvars, serving, ctxs, stack, ctx, idx, response,
                   stack0, uservars>>

\* dispatch_request: except HTTPException, e
except_HTTPException(t) ==
    /\ UNCHANGED flashvars
    /\ pc[t] = "except_http"
    /\ IF exc[t].code \notin error_handlers
       THEN /\ rv' = [rv EXCEPT ![t] = HTTPExceptionValue(exc[t].code)]
            /\ exc' = [exc EXCEPT ![t] = NoExc]
            /\ pc' = [pc EXCEPT ![t] = "make_response"]
            /\ UNCHANGED <<log, seen>>
       ELSE call_handler(t, exc[t].code)
    /\ UNCHANGED <<appvars, serving, ctxs, stack, ctx, idx, response,
                   stack0, uservars>>

\* an except clause that calls the 500 handler in debug mode too
except_Exception_ignoring_debug(t) ==
    /\ UNCHANGED flashvars
    /\ pc[t] = "except_other"
    /\ IF 500 \notin error_handlers
       THEN /\ pc' = [pc EXCEPT ![t] = "exit"]
            /\ UNCHANGED <<rv, exc, log, seen>>
       ELSE call_handler(t, 500)
    /\ UNCHANGED <<appvars, serving, ctxs, stack, ctx, idx, response,
                   stack0, uservars>>

\* dispatch_request: except Exception, e
except_Exception(t) ==
    /\ UNCHANGED flashvars
    /\ pc[t] = "except_other"
    /\ IF debug \/ 500 \notin error_handlers
       THEN /\ pc' = [pc EXCEPT ![t] = "exit"]
            /\ UNCHANGED <<rv, exc, log, seen>>
       ELSE call_handler(t, 500)
    /\ UNCHANGED <<appvars, serving, ctxs, stack, ctx, idx, response,
                   stack0, uservars>>

\* response = self.make_response(rv)
MakeResponse(t) ==
    /\ UNCHANGED flashvars
    /\ pc[t] = "make_response"
    /\ log' = Logged(t, "make_response", 0, make_response(rv[t]))
    /\ IF make_response(rv[t]).raised = NoExc
       THEN /\ response' = [response EXCEPT ![t] = make_response(rv[t]).value]
            /\ pc' = [pc EXCEPT ![t] = "process_response"]
            /\ UNCHANGED exc
       ELSE /\ exc' = [exc EXCEPT ![t] = make_response(rv[t]).raised]
            /\ pc' = [pc EXCEPT ![t] = "exit"]
            /\ UNCHANGED response
    /\ UNCHANGED <<appvars, serving, ctxs, stack, ctx, idx, rv,
                   stack0, seen, uservars>>

\* a process_response that goes to the after-request functions at once
SaveSession_skipped(t) ==
    /\ UNCHANGED flashvars
    /\ pc[t] = "process_response"
    /\ pc' = [pc EXCEPT ![t] = "after"]
    /\ idx' = [idx EXCEPT ![t] = 1]
    /\ UNCHANGED <<appvars, serving, ctxs, stack, ctx, rv, response, exc,
                   histvars, uservars>>

\* a process_response that saves whatever open_session returned
SaveSession_unconditional(t) ==
    /\ pc[t] = "process_response"
    /\ \E o \in SaveOutcomes :
          /\ log' = Logged(t, "save_session", session(t).id, o)
          /\ IF o.raised = NoExc
             THEN /\ response' = [response EXCEPT ![t].headers =
                                    Append(@, <<"session", session(t).id>>)]
                  /\ set_cookie' = [set_cookie EXCEPT ![t] =
                                      [set |-> TRUE, flashes |-> session(t).flashes]]
                  /\ pc' = [pc EXCEPT ![t] = "after"]
                  /\ idx' = [idx EXCEPT ![t] = 1]
                  /\ UNCHANGED exc
             ELSE /\ exc' = [exc EXCEPT ![t] = o.raised]
                  /\ pc' = [pc EXCEPT ![t] = "exit"]
                  /\ UNCHANGED <<response, idx, set_cookie>>
    /\ UNCHANGED <<appvars, serving, ctxs, stack, ctx, rv,
                   stack0, seen, uservars, cookie, cookie0, flashlog>>

\* process_response: the session of the current context is saved, if any
SaveSession(t) ==
    /\ pc[t] = "process_response"
    /\ IF session(t) # NoSession
       THEN \E o \in SaveOutcomes :
               /\ log' = Logged(t, "save_session", session(t).id, o)
               /\ IF o.raised = NoExc
                  THEN /\ response' = [response EXCEPT ![t].headers =
                                         Append(@, <<"session", session(t).id>>)]
                       /\ set_cookie' = [set_cookie EXCEPT ![t] =
                                           [set |-> TRUE,
                                            flashes |-> session(t).flashes]]
                       /\ pc' = [pc EXCEPT ![t] = "after"]
                       /\ idx' = [idx EXCEPT ![t] = 1]
                       /\ UNCHANGED exc
                  ELSE /\ exc' = [exc EXCEPT ![t] = o.raised]
                       /\ pc' = [pc EXCEPT ![t] = "exit"]
                       /\ UNCHANGED <<response, idx, set_cookie>>
       ELSE /\ pc' = [pc EXCEPT ![t] = "after"]
            /\ idx' = [idx EXCEPT ![t] = 1]
            /\ UNCHANGED <<response, log, exc, set_cookie>>
    /\ UNCHANGED <<appvars, serving, ctxs, stack, ctx, rv,
                   stack0, seen, uservars, cookie, cookie0, flashlog>>

\* a loop that goes on to the next after-request function when one raises,
\* and raises at its end
AfterHook_continuing(t) ==
    /\ UNCHANGED flashvars
    /\ pc[t] = "after" /\ idx[t] <= Len(after_request_funcs)
    /\ \E o \in AfterOutcomes(after_request_funcs[idx[t]], response[t]) :
          /\ log' = Logged(t, "after", after_request_funcs[idx[t]], o)
          /\ IF o.raised = NoExc
             THEN /\ response' = [response EXCEPT ![t] = o.value]
                  /\ idx' = [idx EXCEPT ![t] = @ + 1]
                  /\ UNCHANGED <<exc, pc>>
             ELSE /\ exc' = [exc EXCEPT ![t] = o.raised]
                  /\ idx' = [idx EXCEPT ![t] = @ + 1]
                  /\ pc' = [pc EXCEPT ![t] =
                             IF idx[t] = Len(after_request_funcs)
                             THEN "exit" ELSE "after"]
                  /\ UNCHANGED response
    /\ seen' = Seen(t)
    /\ UNCHANGED <<appvars, serving, ctxs, stack, ctx, rv, stack0, uservars>>

\* process_response: one after-request function is called
AfterHook(t) ==
    /\ UNCHANGED flashvars
    /\ pc[t] = "after" /\ idx[t] <= Len(after_request_funcs)
    /\ \E o \in AfterOutcomes(after_request_funcs[idx[t]], response[t]) :
          /\ log' = Logged(t, "after", after_request_funcs[idx[t]], o)
          /\ IF o.raised = NoExc
             THEN /\ response' = [response EXCEPT ![t] = o.value]
                  /\ idx' = [idx EXCEPT ![t] = @ + 1]
                  /\ UNCHANGED <<exc, pc>>
             ELSE /\ exc' = [exc EXCEPT ![t] = o.raised]
                  /\ pc' = [pc EXCEPT ![t] = "exit"]
                  /\ UNCHANGED <<response, idx>>
    /\ seen' = Seen(t)
    /\ UNCHANGED <<appvars, serving, ctxs, stack, ctx, rv, stack0, uservars>>

\* process_response returns; return response(environ, start_response)
Send(t) ==
    /\ pc[t] = "after" /\ idx[t] > Len(after_request_funcs)
    /\ \E o \in SendOutcomes :
          /\ exc' = [exc EXCEPT ![t] = o.raised]
          /\ log' = Logged(t, "send", 0, o)
          \* the client takes the cookie of the response it gets
          /\ cookie' = IF o.raised = NoExc /\ set_cookie[t].set
                       THEN set_cookie[t].flashes ELSE cookie
    /\ pc' = [pc EXCEPT ![t] = "exit"]
    /\ UNCHANGED <<appvars, serving, ctxs, stack, ctx, idx, rv, response,
                   stack0, seen, uservars, set_cookie, cookie0, flashlog>>

\* _RequestContext.__exit__ at the end of the with-block
Exit(t) ==
    /\ UNCHANGED flashvars
    /\ pc[t] = "exit"
    /\ IF exit_pops(exc[t])
       THEN /\ stack' = pop(stack, t)
            /\ log' = Logged(t, "pop", top(stack, t), Returns(None))
       ELSE UNCHANGED <<stack, log>>
    /\ pc' = [pc EXCEPT ![t] = IF exc[t] = NoExc THEN "returned" ELSE "raised"]
    /\ UNCHANGED <<appvars, serving, ctxs, ctx, idx, rv, response, exc,
                   stack0, seen, uservars>>

\* wsgi_app is over: the caller has the response or the exception
Return(t) ==
    /\ pc[t] \in {"returned", "raised"}
    /\ pc' = [pc EXCEPT ![t] = "idle"]
    /\ ctx' = [ctx EXCEPT ![t] = NoCtx]
    /\ idx' = [idx EXCEPT ![t] = 0]
    /\ rv' = [rv EXCEPT ![t] = None]
    /\ response' = [response EXCEPT ![t] = None]
    /\ exc' = [exc EXCEPT ![t] = NoExc]
    /\ log' = [log EXCEPT ![t] = <<>>]
    /\ stack0' = [stack0 EXCEPT ![t] = <<>>]
    /\ seen' = [seen EXCEPT ![t] = {}]
    /\ ctxs' = Reclaim(ctxs, stack, ctx[t])
    /\ set_cookie' = [set_cookie EXCEPT ![t] = NoCookie]
    /\ cookie0' = [cookie0 EXCEPT ![t] = <<>>]
    /\ flashlog' = [flashlog EXCEPT ![t] = <<>>]
    /\ UNCHANGED <<appvars, serving, stack, uservars, cookie>>

\* the with-block of wsgi_app and its end
with_block(t) ==
    \/ Enter(t)
    \/ BeforeHook(t)
    \/ PreprocessEnd(t)
    \/ match_request(t)
    \/ view(t)
    \/ except_HTTPException(t)
    \/ except_Exception(t)
    \/ MakeResponse(t)
    \/ SaveSession(t)
    \/ AfterHook(t)
    \/ Send(t)
    \/ Exit(t)
    \/ Return(t)

wsgi_app(t) ==
    \/ \E path \in Paths : request_context(t, path)
    \/ with_block(t)

(***************************************************************************)
(* flash and get_flashed_messages, called by the view function or by an    *)
(* after-request function of the dispatch.                                 *)
(***************************************************************************)
\* application code of the dispatch is running: the view function, or an
\* after-request function
InApplicationCode(t) ==
    \/ pc[t] = "view" /\ request(t).endpoint \in view_functions
    \/ pc[t] = "after" /\ idx[t] <= Len(after_request_funcs)

\* a call, what it returned (flash: the message it was given) and where in
\* the dispatch it was made
Call(op, result, at) == [op |-> op, result |-> result, at |-> at]

\* flash(message), each call with a message of its own:
\* session['_flashes'] = session.get('_flashes', []) + [message]
flash(t) ==
    /\ InApplicationCode(t) /\ Len(flashlog[t]) < MaxCalls
    /\ session(t) # NoSession
    /\ LET message == <<ctx[t], Len(flashlog[t]) + 1>> IN
       /\ ctxs' = [ctxs EXCEPT ![top(stack, t)].session =
                     [@ EXCEPT !.flashes = Append(@, message),
                               !.modified = TRUE]]
       /\ flashlog' = [flashlog EXCEPT ![t] =
                         Append(@, Call("flash", <<message>>, pc[t]))]
    /\ UNCHANGED <<appvars, serving, stack, framevars, histvars, uservars,
                   cookie, set_cookie, cookie0>>

\* a get_flashed_messages that pulls from the session at every call
get_flashed_messages_uncached(t) ==
    /\ InApplicationCode(t) /\ Len(flashlog[t]) < MaxCalls
    /\ session(t) # NoSession
    /\ ctxs' = [ctxs EXCEPT
                  ![top(stack, t)].flashes =
                      [pulled |-> TRUE, messages |-> session(t).flashes],
                  ![top(stack, t)].session =
                      [@ EXCEPT !.flashes = <<>>, !.modified = TRUE]]
    /\ flashlog' = [flashlog EXCEPT ![t] =
                      Append(@, Call("get_flashed_messages",
                                     session(t).flashes, pc[t]))]
    /\ UNCHANGED <<appvars, serving, stack, framevars, histvars, uservars,
                   cookie, set_cookie, cookie0>>

\* get_flashed_messages: the first call of the request pops '_flashes' from
\* the session into the context, every call returns what the context holds
get_flashed_messages(t) ==
    /\ InApplicationCode(t) /\ Len(flashlog[t]) < MaxCalls
    /\ session(t) # NoSession
    /\ IF ~ctxs[top(stack, t)].flashes.pulled
       THEN /\ ctxs' = [ctxs EXCEPT
                          ![top(stack, t)].flashes =
                              [pulled |-> TRUE, messages |-> session(t).flashes],
                          ![top(stack, t)].session =
                              [@ EXCEPT !.flashes = <<>>, !.modified = TRUE]]
            /\ flashlog' = [flashlog EXCEPT ![t] =
                              Append(@, Call("get_flashed_messages",
                                             session(t).flashes, pc[t]))]
       ELSE /\ flashlog' = [flashlog EXCEPT ![t] =
                              Append(@, Call("get_flashed_messages",
                                             ctxs[top(stack, t)].flashes.messages,
                                             pc[t]))]
            /\ UNCHANGED ctxs
    /\ UNCHANGED <<appvars, serving, stack, framevars, histvars, uservars,
                   cookie, set_cookie, cookie0>>

(***************************************************************************)
(* Code that uses request contexts directly, as tests and shells do:       *)
(* with app.test_request_context(...): ...                                 *)
(***************************************************************************)
\* the with statement is entered: the context is constructed and pushed
UserEnter(t) ==
    /\ UNCHANGED flashvars
    /\ serving /\ pc[t] = "idle" /\ Len(ctxs) < MaxCtx
    /\ ctxs' = Append(ctxs, RequestContext(Len(ctxs) + 1, "/"))
    /\ stack' = push(stack, t, Len(ctxs) + 1)
    /\ scopes' = [scopes EXCEPT ![t] = Append(@, Len(ctxs) + 1)]
    /\ popped' = [popped EXCEPT ![t] = NoPop]
    /\ UNCHANGED <<appvars, serving, framevars, histvars, accessed>>

\* the innermost with-block is left, normally or by an exception tb
UserExit(t, tb) ==
    /\ UNCHANGED flashvars
    /\ pc[t] = "idle" /\ scopes[t] # <<>>
    /\ scopes' = [scopes EXCEPT ![t] = SubSeq(@, 1, Len(@) - 1)]
    /\ IF exit_pops(tb)
       THEN /\ stack' = pop(stack, t)
            /\ popped' = [popped EXCEPT ![t] =
                            [empty |-> LocalStack(stack, t) = <<>>,
                             item |-> top(stack, t), raised |-> NoExc]]
            /\ ctxs' = Reclaim(ctxs, pop(stack, t), top(stack, t))
       ELSE /\ popped' = [popped EXCEPT ![t] = NoPop]
            /\ UNCHANGED <<stack, ctxs>>
    /\ UNCHANGED <<appvars, serving, framevars, histvars, accessed>>

\* __exit__(None, None, None) is called once more on a context whose
\* with-block is already over
ExitAgain(t) ==
    /\ UNCHANGED flashvars
    /\ pc[t] = "idle" /\ scopes[t] = <<>> /\ Len(ctxs) > 0
    /\ stack' = pop(stack, t)
    /\ popped' = [popped EXCEPT ![t] =
                    [empty |-> LocalStack(stack, t) = <<>>,
                     item |-> top(stack, t), raised |-> NoExc]]
    /\ ctxs' = Reclaim(ctxs, pop(stack, t), top(stack, t))
    /\ UNCHANGED <<appvars, serving, framevars, histvars, scopes, accessed>>

\* user code reads current_app, request, session and g
UserAccess(t) ==
    /\ UNCHANGED flashvars
    /\ serving /\ pc[t] = "idle"
    /\ UNCHANGED <<stack, ctxs>>
    /\ accessed' = [accessed EXCEPT ![t] =
                      [raised |-> LocalProxy(t).raised,
                       value |-> LocalProxy(t).value,
                       at |-> top(stack, t),
                       left |-> LocalStack(stack', t),
                       prev |-> accessed[t].value.request]]
    /\ UNCHANGED <<appvars, serving, framevars, histvars, scopes, popped>>

UserCode(t) ==
    \/ UserEnter(t)
    \/ \E tb \in {NoExc, Exception} : UserExit(t, tb)
    \/ ExitAgain(t)
    \/ UserAccess(t)

\* the thread that sets the application up, tests it and serves
MainThread == "t1"

Next ==
    \/ Setup
    \/ wsgi_app(MainThread)
    \/ UserCode(MainThread)

Spec == Init /\ [][Next]_vars

(***************************************************************************)
(* Serving: the application is set up and every thread dispatches.         *)
(***************************************************************************)
InitServing ==
    /\ debug \in BOOLEAN
    /\ secret_key = TRUE
    /\ view_functions = {"index"}
    /\ error_handlers = {404}
    /\ before_request_funcs = <<1>>
    /\ after_request_funcs = <<1>>
    /\ template_context_processors = <<0>>
    /\ url_map = {"/"}
    /\ serving = TRUE
    /\ ctxs = <<>>
    /\ stack = [t \in Threads |-> <<>>]
    /\ pc = [t \in Threads |-> "idle"]
    /\ ctx = [t \in Threads |-> NoCtx]
    /\ idx = [t \in Threads |-> 0]
    /\ rv = [t \in Threads |-> None]
    /\ response = [t \in Threads |-> None]
    /\ exc = [t \in Threads |-> NoExc]
    /\ log = [t \in Threads |-> <<>>]
    /\ stack0 = [t \in Threads |-> <<>>]
    /\ seen = [t \in Threads |-> {}]
    /\ scopes = [t \in Threads |-> <<>>]
    /\ popped = [t \in Threads |-> NoPop]
    /\ accessed = [t \in Threads |-> NoAccess]
    /\ cookie = <<>>
    /\ set_cookie = [t \in Threads |-> NoCookie]
    /\ cookie0 = [t \in Threads |-> <<>>]
    /\ flashlog = [t \in Threads |-> <<>>]

NextServing == \E t \in Threads : wsgi_app(t)

SpecServing == InitServing /\ [][NextServing]_vars

(***************************************************************************)
(* An application with one function of each kind, then its context         *)
(* processors, then dispatches on one thread.                              *)
(***************************************************************************)
InitConfigured ==
    /\ debug \in BOOLEAN
    /\ secret_key \in BOOLEAN
    /\ view_functions = {"index"}
    /\ error_handlers \in {{404}, {404, 500}}
    /\ before_request_funcs = <<1>>
    /\ after_request_funcs = <<1>>
    /\ template_context_processors = <<0>>
    /\ url_map = {"/"}
    /\ serving = FALSE
    /\ ctxs = <<>>
    /\ stack = [t \in Threads |-> <<>>]
    /\ pc = [t \in Threads |-> "idle"]
    /\ ctx = [t \in Threads |-> NoCtx]
    /\ idx = [t \in Threads |-> 0]
    /\ rv = [t \in Threads |-> None]
    /\ response = [t \in Threads |-> None]
    /\ exc = [t \in Threads |-> NoExc]
    /\ log = [t \in Threads |-> <<>>]
    /\ stack0 = [t \in Threads |-> <<>>]
    /\ seen = [t \in Threads |-> {}]
    /\ scopes = [t \in Threads |-> <<>>]
    /\ popped = [t \in Threads |-> NoPop]
    /\ accessed = [t \in Threads |-> NoAccess]
    /\ cookie = <<>>
    /\ set_cookie = [t \in Threads |-> NoCookie]
    /\ cookie0 = [t \in Threads |-> <<>>]
    /\ flashlog = [t \in Threads |-> <<>>]

NextConfigured ==
    \/ context_processor
    \/ StartServing
    \/ wsgi_app(MainThread)

SpecConfigured == InitConfigured /\ [][NextConfigured]_vars

(***************************************************************************)
(* An application with two rules, dispatching requests for three paths on  *)
(* one thread.                                                             *)
(***************************************************************************)
InitRouting ==
    /\ debug = FALSE
    /\ secret_key = FALSE
    /\ view_functions = {EndpointOf(rule) : rule \in RoutingRules}
    /\ error_handlers \in {{}, {404}}
    /\ before_request_funcs = <<1>>
    /\ after_request_funcs = <<1>>
    /\ template_context_processors = <<0>>
    /\ url_map = RoutingRules
    /\ serving = TRUE
    /\ ctxs = <<>>
    /\ stack = [t \in Threads |-> <<>>]
    /\ pc = [t \in Threads |-> "idle"]
    /\ ctx = [t \in Threads |-> NoCtx]
    /\ idx = [t \in Threads |-> 0]
    /\ rv = [t \in Threads |-> None]
    /\ response = [t \in Threads |-> None]
    /\ exc = [t \in Threads |-> NoExc]
    /\ log = [t \in Threads |-> <<>>]
    /\ stack0 = [t \in Threads |-> <<>>]
    /\ seen = [t \in Threads |-> {}]
    /\ scopes = [t \in Threads |-> <<>>]
    /\ popped = [t \in Threads |-> NoPop]
    /\ accessed = [t \in Threads |-> NoAccess]
    /\ cookie = <<>>
    /\ set_cookie = [t \in Threads |-> NoCookie]
    /\ cookie0 = [t \in Threads |-> <<>>]
    /\ flashlog = [t \in Threads |-> <<>>]

NextRouting ==
    \/ \E path \in RoutingPaths : request_context(MainThread, path)
    \/ with_block(MainThread)

SpecRouting == InitRouting /\ [][NextRouting]_vars

(***************************************************************************)
(* An application with sessions whose view and after-request function      *)
(* flash messages and get the flashed ones, dispatching the requests of    *)
(* one client on one thread.                                               *)
(***************************************************************************)
InitFlash ==
    /\ debug = FALSE
    /\ secret_key = TRUE
    /\ view_functions = {"index"}
    /\ error_handlers = {}
    /\ before_request_funcs = <<1>>
    /\ after_request_funcs = <<1>>
    /\ template_context_processors = <<0>>
    /\ url_map = {"/"}
    /\ serving = TRUE
    /\ ctxs = <<>>
    /\ stack = [t \in Threads |-> <<>>]
    /\ pc = [t \in Threads |-> "idle"]
    /\ ctx = [t \in Threads |-> NoCtx]
    /\ idx = [t \in Threads |-> 0]
    /\ rv = [t \in Threads |-> None]
    /\ response = [t \in Threads |-> None]
    /\ exc = [t \in Threads |-> NoExc]
    /\ log = [t \in Threads |-> <<>>]
    /\ stack0 = [t \in Threads |-> <<>>]
    /\ seen = [t \in Threads |-> {}]
    /\ scopes = [t \in Threads |-> <<>>]
    /\ popped = [t \in Threads |-> NoPop]
    /\ accessed = [t \in Threads |-> NoAccess]
    /\ cookie = <<>>
    /\ set_cookie = [t \in Threads |-> NoCookie]
    /\ cookie0 = [t \in Threads |-> <<>>]
    /\ flashlog = [t \in Threads |-> <<>>]

NextFlash ==
    \/ wsgi_app(MainThread)
    \/ flash(MainThread)
    \/ get_flashed_messages(MainThread)

SpecFlash == InitFlash /\ [][NextFlash]_vars

(***************************************************************************)
(* Vocabulary of the properties.                                           *)
(***************************************************************************)
\* wsgi_app has ended on thread t and its caller has the outcome
Returned(t) == pc[t] = "returned"
Raised(t) == pc[t] = "raised"
Done(t) == Returned(t) \/ Raised(t)
Dispatching(t) == pc[t] # "idle"

\* positions of the calls of a kind in the log of the current dispatch
Calls(t, name) == {i \in 1..Len(log[t]) : log[t][i].name = name}
Called(t, name) == Calls(t, name) # {}

\* the last call the dispatch made to application code or to the router
LastCall(t) ==
    LET is == {i \in 1..Len(log[t]) :
                  log[t][i].name \in {"before", "match", "view", "errorhandler",
                                      "make_response", "save_session",
                                      "after", "send"}}
    IN IF is = {} THEN Event("none", 0, Returns(None))
       ELSE log[t][CHOOSE i \in is : \A j \in is : j <= i]

OnStack(t, c) == \E i \in 1..Len(stack[t]) : stack[t][i] = c

(***************************************************************************)
(* C1: requests dispatched concurrently on different threads are isolated. *)
(* Whatever hook, view or handler of a dispatch reads the request, session *)
(* and g proxies finds the objects of the context of its own dispatch,     *)
(* never those of the dispatch running on another thread; and a step       *)
(* changes the context stack of a thread only if that thread takes it, as  *)
(* the push of __enter__ or the pop of __exit__.                           *)
(***************************************************************************)
OwnObjects(t) ==
    [request |-> ctx[t], session |-> ctxs[ctx[t]].session.id, g |-> ctx[t]]

C1_ProxiesResolveToOwnContext ==
    \A t \in Threads : \A o \in seen[t] :
        /\ o = OwnObjects(t)
        /\ \A u \in Threads \ {t} : Dispatching(u) => o.request # ctx[u]

C1_StackTouchedByOwnerOnly ==
    \A t \in Threads :
        stack'[t] # stack[t] => /\ pc[t] \in {"enter", "exit"}
                                /\ pc'[t] # pc[t]
                                /\ \A u \in Threads \ {t} : stack'[u] = stack[u]

C1_Isolation ==
    [] C1_ProxiesResolveToOwnContext /\ [][C1_StackTouchedByOwnerOnly]_vars

\* two dispatches are in their views at once and both have read the proxies
C1_Witness ==
    /\ pc["t1"] = "view" /\ pc["t2"] = "make_response"
    /\ seen["t1"] # {} /\ seen["t2"] # {}
    /\ ctx["t1"] > ctx["t2"]

(***************************************************************************)
(* C2: with debug off, a dispatch leaves the stack of its thread as it     *)
(* found it, whether it returns a response or raises, at whatever stage.   *)
(***************************************************************************)
C2_StackRestored ==
    \A t \in Threads : (~debug /\ Done(t)) => stack[t] = stack0[t]

\* a dispatch entered inside an open with-block has raised, debug off
C2_Witness ==
    /\ ~debug /\ Raised(MainThread)
    /\ stack0[MainThread] # <<>>
    /\ LastCall(MainThread).name = "after"

(***************************************************************************)
(* C3: when the view raises an exception that is no HTTPException and the  *)
(* exception leaves the dispatch: in debug mode with no 500 handler the    *)
(* context stays on the stack and the request proxy still resolves to the  *)
(* request of the dispatch; with debug off the context has been popped     *)
(* when the caller gets the exception.                                     *)
(***************************************************************************)
ViewRaisedOut(t) ==
    /\ Raised(t)
    /\ LastCall(t).name = "view"
    /\ exc[t] = Exception

C3_DebugRetention ==
    \A t \in Threads : ViewRaisedOut(t) =>
        /\ (debug /\ 500 \notin error_handlers) =>
              /\ top(stack, t) = ctx[t]
              /\ Resolve(t).request = ctx[t]
        /\ ~debug => /\ ~OnStack(t, ctx[t])
                     /\ Resolve(t).request # ctx[t]

\* the view raised in debug mode and the context is still the current one
C3_Witness ==
    /\ debug /\ 500 \notin error_handlers
    /\ ViewRaisedOut(MainThread)
    /\ top(stack, MainThread) = ctx[MainThread]

(***************************************************************************)
(* C4: pushing N contexts and popping N times leaves the stack empty, and  *)
(* one more pop, on the empty stack, fails with an EmptyStackError.        *)
(***************************************************************************)
EmptyStackError == [kind |-> "EmptyStackError", code |-> 0]

C4_PopOnEmptyFails ==
    \A t \in Threads :
        /\ (~debug /\ pc[t] = "idle") => Len(stack[t]) = Len(scopes[t])
        /\ popped[t].empty => popped[t].raised = EmptyStackError

(***************************************************************************)
(* C5: once a before-request function has returned a value other than     *)
(* None, the dispatch calls no later before-request function, never asks   *)
(* the router to match and calls no view function; the endpoint of the     *)
(* request stays unset.                                                    *)
(***************************************************************************)
ShortCircuitAt(t, i) ==
    /\ log[t][i].name = "before"
    /\ log[t][i].out.raised = NoExc
    /\ log[t][i].out.value # None

ShortCircuited(t) == \E i \in 1..Len(log[t]) : ShortCircuitAt(t, i)

C5_ShortCircuitSkipsRouting ==
    \A t \in Threads : \A i \in 1..Len(log[t]) :
        ShortCircuitAt(t, i) =>
            /\ \A j \in Calls(t, "before") : j <= i
            /\ ~Called(t, "match")
            /\ ~Called(t, "view")
            /\ ctxs[ctx[t]].request.endpoint = "None"

\* the first of two before-request functions returned a value, the path has
\* a view, and the dispatch is over
C5_Witness ==
    /\ Returned(MainThread)
    /\ Len(before_request_funcs) = 2
    /\ view_functions # {}
    /\ \E i \in 1..Len(log[MainThread]) :
          ShortCircuitAt(MainThread, i) /\ log[MainThread][i].arg = 1

(***************************************************************************)
(* C6: the value a before-request function short-circuits with goes the    *)
(* way of a view's result: it is what make_response is applied to, and in  *)
(* a dispatch that returns, the session (if there is one) is saved and     *)
(* every after-request function is called, in order, on the coerced        *)
(* response, all before the context is popped.                             *)
(***************************************************************************)
Names(t) == [j \in 1..Len(log[t]) |-> log[t][j].name]
Repeat(n, name) == [k \in 1..n |-> name]

\* the headers the session and the after-request functions add, in order
AddedHeaders(c) ==
    (IF ctxs[c].session # NoSession
     THEN <<<<"session", ctxs[c].session.id>>>> ELSE <<>>)
        \o [k \in 1..Len(after_request_funcs) |-> <<"after", after_request_funcs[k]>>]

C6_ShortCircuitValueIsProcessed ==
    \A t \in Threads : \A i \in 1..Len(log[t]) :
        ShortCircuitAt(t, i) =>
            LET v == log[t][i].out.value IN
            /\ rv[t] = v
            /\ \A j \in Calls(t, "make_response") :
                  j = i + 1 /\ log[t][j].out = make_response(v)
            /\ Returned(t) =>
                  /\ SubSeq(Names(t), i + 1, Len(log[t])) =
                        <<"make_response">>
                        \o (IF ctxs[ctx[t]].session # NoSession
                            THEN <<"save_session">> ELSE <<>>)
                        \o Repeat(Len(after_request_funcs), "after")
                        \o <<"send", "pop">>
                  /\ response[t] =
                        [make_response(v).value EXCEPT
                            !.headers = @ \o AddedHeaders(ctx[t])]

\* a short-circuited dispatch of an application with a session and two
\* after-request functions has returned
C6_Witness ==
    /\ Returned(MainThread) /\ ShortCircuited(MainThread)
    /\ secret_key /\ Len(after_request_funcs) = 2
    /\ Len(response[MainThread].headers) = 3

(***************************************************************************)
(* C7: the short circuit is decided by comparing with None, not by truth   *)
(* value: a before-request function that returns "" or 0 ends the loop and *)
(* its value becomes rv; the router is asked only when every registered    *)
(* before-request function was called and returned None.                   *)
(***************************************************************************)
Falsy == {Str(""), IntVal(0)}

C7_SentinelNotTruthiness ==
    \A t \in Threads :
        /\ \A i \in Calls(t, "before") :
              (log[t][i].out.raised = NoExc /\ log[t][i].out.value \in Falsy) =>
                  /\ rv[t] = log[t][i].out.value
                  /\ \A j \in Calls(t, "before") : j <= i
                  /\ pc[t] \notin {"preprocess", "match", "view",
                                   "except_http", "except_other"}
        /\ Called(t, "match") =>
              /\ Cardinality(Calls(t, "before")) = Len(before_request_funcs)
              /\ \A i \in Calls(t, "before") : log[t][i].out = Returns(None)

\* a before-request function returned the empty string and the dispatch
\* returned the response made of it
C7_Witness ==
    /\ Returned(MainThread)
    /\ rv[MainThread] = Str("")
    /\ response[MainThread].body = "" /\ response[MainThread].status = 200
    /\ ~Called(MainThread, "match")

(***************************************************************************)
(* C8: when routing or the view raises an HTTPException with code s, the   *)
(* error handler registered for exactly s is called and what it returns is *)
(* the result of dispatch_request; with no handler for s the exception     *)
(* object itself is the result.  No handler of another code, 500 included, *)
(* is called for it.                                                       *)
(***************************************************************************)
HTTPRaisedAt(t, i) ==
    /\ log[t][i].name \in {"match", "view"}
    /\ log[t][i].out.raised.kind = "HTTPException"

C8_HandlerByExactCode ==
    \A t \in Threads : \A i \in 1..Len(log[t]) :
        HTTPRaisedAt(t, i) =>
            LET s == log[t][i].out.raised.code IN
            \/ pc[t] = "except_http" /\ i = Len(log[t]) /\ exc[t] = HTTPException(s)
            \/ /\ pc[t] # "except_http"
               /\ \A j \in Calls(t, "errorhandler") : j = i + 1 /\ log[t][j].arg = s
               /\ IF s \in error_handlers
                  THEN /\ Len(log[t]) > i
                       /\ log[t][i + 1].name = "errorhandler"
                       /\ log[t][i + 1].out.raised = NoExc =>
                              rv[t] = log[t][i + 1].out.value
                  ELSE /\ rv[t] = HTTPExceptionValue(s)
                       /\ ~Called(t, "errorhandler")

\* no rule matched, the 404 handler (not the 500 handler) was called and the
\* dispatch returned its page
C8_Witness ==
    /\ Returned(MainThread)
    /\ error_handlers = {404, 500}
    /\ \E i \in Calls(MainThread, "match") :
          /\ HTTPRaisedAt(MainThread, i)
          /\ log[MainThread][i + 1].name = "errorhandler"
          /\ log[MainThread][i + 1].arg = 404
    /\ rv[MainThread] = Tuple("handled", 404)
    /\ response[MainThread].status = 404

(***************************************************************************)
(* C9: when the view raises an exception that is no HTTPException, the     *)
(* exception leaves dispatch_request uncaught exactly when the application *)
(* is in debug mode or has no handler for 500 (in debug mode even with a   *)
(* 500 handler); otherwise the 500 handler is called and what it returns   *)
(* is the result.                                                          *)
(***************************************************************************)
ExceptionRaisedAt(t, i) ==
    /\ log[t][i].name = "view"
    /\ log[t][i].out.raised = Exception

C9_Handler500UnlessDebug ==
    \A t \in Threads : \A i \in 1..Len(log[t]) :
        ExceptionRaisedAt(t, i) =>
            \/ pc[t] = "except_other" /\ i = Len(log[t]) /\ exc[t] = Exception
            \/ /\ pc[t] # "except_other"
               /\ IF debug \/ 500 \notin error_handlers
                  THEN /\ ~Called(t, "errorhandler")
                       /\ exc[t] = Exception
                       /\ pc[t] \in {"exit", "raised"}
                       /\ LastCall(t) = log[t][i]
                  ELSE /\ Len(log[t]) > i
                       /\ log[t][i + 1].name = "errorhandler"
                       /\ log[t][i + 1].arg = 500
                       /\ Calls(t, "errorhandler") = {i + 1}
                       /\ log[t][i + 1].out.raised = NoExc =>
                              rv[t] = log[t][i + 1].out.value

\* debug off: the view raised, the 500 handler was called and the dispatch
\* returned its page
C9_Witness ==
    /\ Returned(MainThread) /\ ~debug
    /\ \E i \in Calls(MainThread, "view") : ExceptionRaisedAt(MainThread, i)
    /\ rv[MainThread] = Tuple("handled", 500)
    /\ response[MainThread].status = 500

(***************************************************************************)
(* C10: an HTTPException raised anywhere in a dispatch (before-request     *)
(* function, routing, view, error handler, after-request function) is      *)
(* resolved through the error handlers and never leaves wsgi_app as an     *)
(* exception.                                                              *)
(***************************************************************************)
C10_HTTPExceptionNeverLeaves ==
    \A t \in Threads : Raised(t) => exc[t].kind # "HTTPException"

(***************************************************************************)
(* C11: a result that make_response cannot coerce is fatal only when the   *)
(* application has no handler for 500: with a 500 handler and debug off,   *)
(* the 500 handler is called for the failed coercion and the dispatch      *)
(* returns a response, it does not raise.                                  *)
(***************************************************************************)
CoercionFailedAt(t, i) ==
    /\ log[t][i].name = "make_response"
    /\ log[t][i].out.raised # NoExc

C11_CoercionFailureGoesTo500Handler ==
    \A t \in Threads : \A i \in 1..Len(log[t]) :
        (CoercionFailedAt(t, i) /\ ~debug /\ 500 \in error_handlers) =>
            /\ ~Raised(t)
            /\ pc[t] = "returned" =>
                  \E j \in Calls(t, "errorhandler") :
                      j > i /\ log[t][j].arg = 500

(***************************************************************************)
(* C12: the after-request functions are called in the order they were      *)
(* registered, each once in a dispatch that gets through its response      *)
(* processing: the first is given the coerced response (the session        *)
(* already saved into it), each later one is given what the one before it  *)
(* returned, and the response of the dispatch is what the last returned.   *)
(***************************************************************************)
\* the response the k-th after-request call of the dispatch was given
AfterArgument(t, k) ==
    LET c == make_response(rv[t]).value
        saved == IF Called(t, "save_session")
                 THEN [c EXCEPT !.headers =
                          Append(@, <<"session", ctxs[ctx[t]].session.id>>)]
                 ELSE c
        before == {j \in Calls(t, "after") : j < k}
    IN IF before = {} THEN saved
       ELSE log[t][CHOOSE j \in before : \A l \in before : l <= j].out.value

\* the n-th function registered with after_request is the function n
C12_AfterHooksChain ==
    \A t \in Threads :
        /\ \A k \in Calls(t, "after") :
              LET n == Cardinality({j \in Calls(t, "after") : j <= k}) IN
              /\ n <= Len(after_request_funcs)
              /\ log[t][k].arg = n
              /\ after_request_funcs[n] = n
              /\ log[t][k].out \in AfterOutcomes(n, AfterArgument(t, k))
        /\ Called(t, "send") =>
              /\ Cardinality(Calls(t, "after")) = Len(after_request_funcs)
              /\ response[t] = AfterArgument(t, Len(log[t]) + 1)

\* two after-request functions were called and the dispatch returned the
\* response of the second
C12_Witness ==
    /\ Returned(MainThread)
    /\ Len(after_request_funcs) = 2
    /\ Cardinality(Calls(MainThread, "after")) = 2
    /\ response[MainThread].headers # <<>>
    /\ response[MainThread].headers[Len(response[MainThread].headers)] = <<"after", 2>>

(***************************************************************************)
(* C13: the steps of a dispatch come one after the other in this order:    *)
(* the context is constructed and pushed, the before-request functions are *)
(* called in registration order, the router matches, the view (or an error *)
(* handler) is called, the result is coerced, the session is saved, the    *)
(* after-request functions are called, the context is popped, the response *)
(* is returned.  The session is saved after the coercion and before the    *)
(* first after-request function.                                           *)
(***************************************************************************)
StepRank(name) ==
    CASE name = "open_session" -> 1
      [] name = "push" -> 2
      [] name = "before" -> 3
      [] name = "match" -> 4
      [] name = "view" -> 5
      [] name = "errorhandler" -> 6
      [] name = "make_response" -> 7
      [] name = "save_session" -> 8
      [] name = "after" -> 9
      [] name = "send" -> 10
      [] name = "pop" -> 11

\* the step a follows the step b at once, in this order
Follows(a, b) ==
    \/ StepRank(a.name) < StepRank(b.name)
    \/ /\ a.name = b.name /\ a.name \in {"before", "after"}
       /\ b.arg = a.arg + 1

C13_StepsInOrder ==
    \A t \in Threads :
        /\ \A i \in 1..(Len(log[t]) - 1) :
              /\ Follows(log[t][i], log[t][i + 1])
              /\ (log[t][i + 1].name \in {"before", "after"}
                     /\ log[t][i].name # log[t][i + 1].name) =>
                    log[t][i + 1].arg = 1
              /\ log[t][i + 1].name = "save_session" =>
                    log[t][i].name = "make_response"
        /\ Returned(t) =>
              /\ SubSeq(Names(t), 1, 2) = <<"open_session", "push">>
              /\ Called(t, "make_response")
              /\ ctxs[ctx[t]].session # NoSession => Called(t, "save_session")
              /\ Cardinality(Calls(t, "after")) = Len(after_request_funcs)
              /\ SubSeq(Names(t), Len(log[t]) - 1, Len(log[t])) = <<"send", "pop">>

\* a dispatch that took every step, with two functions of each kind and a
\* session, has returned
C13_Witness ==
    /\ Returned(MainThread)
    /\ Names(MainThread) =
          <<"open_session", "push", "before", "before", "match", "view",
            "make_response", "save_session", "after", "after", "send", "pop">>

(***************************************************************************)
(* C14: the session is saved after the after-request functions have run    *)
(* and before the context is popped, so that it is written into the        *)
(* response the last after-request function returned.                      *)
(***************************************************************************)
C14_SessionSavedAfterHooks ==
    \A t \in Threads : \A s \in Calls(t, "save_session") :
        /\ \A a \in Calls(t, "after") : a < s
        /\ \A p \in Calls(t, "pop") : s < p

(***************************************************************************)
(* C15: a dispatch opens the session once, when its context is             *)
(* constructed, and saves it at most once however many after-request       *)
(* functions there are; it saves only a session that was opened as a       *)
(* session, never the None of an application without a secret key.         *)
(***************************************************************************)
C15_SessionOpenedOnceSavedAtMostOnce ==
    \A t \in Threads : Dispatching(t) =>
        /\ Calls(t, "open_session") = {1}
        /\ Cardinality(Calls(t, "save_session")) <= 1
        /\ \A s \in Calls(t, "save_session") :
              /\ ctxs[ctx[t]].session # NoSession
              /\ log[t][s].arg = ctxs[ctx[t]].session.id
        /\ ctxs[ctx[t]].session = NoSession =>
              /\ ~Called(t, "save_session")
              /\ \A h \in 1..Len(response[t].headers) :
                    response[t].headers[h][1] # "session"

\* the session was saved once in a dispatch that called two after-request
\* functions and returned
C15_Witness ==
    /\ Returned(MainThread)
    /\ Cardinality(Calls(MainThread, "after")) = 2
    /\ Cardinality(Calls(MainThread, "save_session")) = 1
    /\ Cardinality({h \in 1..Len(response[MainThread].headers) :
                       response[MainThread].headers[h][1] = "session"}) = 1

(***************************************************************************)
(* C16: current_app, request, session and g are resolved against the top   *)
(* of the stack at every access.  With a context B pushed on a context A   *)
(* on the same thread an access yields the application, request, session   *)
(* and g of B; once B is popped the same proxies yield those of A.  No     *)
(* value of an earlier access is kept.                                     *)
(***************************************************************************)
\* the objects of the context c of an application with or without sessions
ObjectsOf(c) ==
    [app |-> "app", request |-> c,
     session |-> IF secret_key THEN c ELSE 0, g |-> c]

C16_ProxiesFollowTheTop ==
    \A t \in Threads :
        (accessed[t] # NoAccess /\ accessed[t].at # NoCtx) =>
            /\ accessed[t].raised = NoExc
            /\ accessed[t].value = ObjectsOf(accessed[t].at)
            /\ accessed[t].left = <<>> \/
                  accessed[t].left[Len(accessed[t].left)] = accessed[t].at

\* B was pushed on A and an access got B's request; B was popped and the
\* next access got A's
C16_Witness ==
    /\ scopes[MainThread] = <<1>> /\ stack[MainThread] = <<1>>
    /\ accessed[MainThread].prev = 2
    /\ accessed[MainThread].value = ObjectsOf(1)
    /\ popped[MainThread].item = 2

(***************************************************************************)
(* C17: an access to current_app, request, session or g when the stack of  *)
(* the thread is empty fails with an error (the NoContextError of the      *)
(* specification; in the code the AttributeError of None.<attr>): it       *)
(* returns no default object, and it leaves the stack empty.               *)
(***************************************************************************)
C17_AccessWithoutContextFails ==
    \A t \in Threads :
        (accessed[t] # NoAccess /\ accessed[t].at = NoCtx) =>
            /\ accessed[t].raised = AttributeError
            /\ accessed[t].value = NoObjects
            /\ accessed[t].left = <<>>

\* an access in a with-block succeeded, the block was left, and the next
\* access failed on the empty stack
C17_Witness ==
    /\ stack[MainThread] = <<>>
    /\ accessed[MainThread].at = NoCtx
    /\ accessed[MainThread].raised = AttributeError
    /\ accessed[MainThread].prev = 1

(***************************************************************************)
(* C18: pushes and pops are paired.  However with-blocks are nested and    *)
(* whichever of them are left normally or by an exception (an exception    *)
(* of an inner block may be caught before the outer block ends), the pop   *)
(* of a context's __exit__ removes that very context, and the only         *)
(* contexts that are never popped are those __exit__ leaves on the stack   *)
(* in debug mode.                                                          *)
(***************************************************************************)
\* a step is the __exit__ of the innermost open with-block of thread t
ExitsScope(t) ==
    /\ pc[t] = "idle" /\ pc'[t] = "idle"
    /\ Len(scopes'[t]) < Len(scopes[t])

C18_ExitPopsItsOwnContext ==
    \A t \in Threads :
        /\ ExitsScope(t) =>
              IF stack'[t] # stack[t]
              THEN /\ top(stack, t) = scopes[t][Len(scopes[t])]
                   /\ popped'[t].item = scopes[t][Len(scopes[t])]
              ELSE debug /\ LocalStack(stack, t) # <<>>
        /\ (pc[t] = "exit" /\ stack'[t] # stack[t]) => top(stack, t) = ctx[t]

C18_PushesAndPopsPaired == [][C18_ExitPopsItsOwnContext]_vars

(***************************************************************************)
(* C19: a dispatch never changes the application: the before-request and   *)
(* after-request function lists, the template context processors, the      *)
(* error handlers, the view functions, the URL map, the secret key and the *)
(* debug flag are after every step of wsgi_app, whichever way the dispatch *)
(* goes, what they were before it.                                         *)
(***************************************************************************)
C19_StepKeepsApplication ==
    (\E t \in Threads : pc'[t] # pc[t] \/ log'[t] # log[t]) => UNCHANGED appvars

C19_DispatchKeepsApplication == [][C19_StepKeepsApplication]_vars

\* a dispatch that called a before-request function, the view, an error
\* handler and an after-request function has returned
C19_Witness ==
    /\ Returned(MainThread)
    /\ Called(MainThread, "before") /\ Called(MainThread, "view")
    /\ Called(MainThread, "errorhandler") /\ Called(MainThread, "after")
    /\ before_request_funcs # <<>> /\ after_request_funcs # <<>>
    /\ error_handlers # {} /\ view_functions # {} /\ debug
    /\ Len(template_context_processors) > 1

(***************************************************************************)
(* C20: make_response is idempotent on responses: given a response object  *)
(* it returns that response unchanged, so coercing the result of a         *)
(* coercion gives the same response again.                                 *)
(***************************************************************************)
C20_MakeResponseIdempotent ==
    \A t \in Threads : \A j \in Calls(t, "make_response") :
        LET o == log[t][j].out IN
        /\ rv[t].type = "Response" => o = Returns(rv[t])
        /\ o.raised = NoExc =>
              /\ o.value.type = "Response"
              /\ make_response(o.value) = o

\* the view returned a response object and the dispatch returned it, with
\* what the after-request functions added
C20_Witness ==
    /\ Returned(MainThread)
    /\ rv[MainThread] = Response("page", 200)
    /\ \E j \in Calls(MainThread, "make_response") :
          log[MainThread][j].out = Returns(rv[MainThread])
    /\ response[MainThread].body = "page"
    /\ Called(MainThread, "view")

(***************************************************************************)
(* C21: make_response classifies its argument in the order response, text, *)
(* tuple, anything else.  A text gives the response with that text as      *)
(* body; a tuple gives the response constructed from its elements in       *)
(* order, so ("hello", 201) gives body "hello" and status 201; any other   *)
(* value is run as a WSGI application in the environment of the request.   *)
(* What comes out is a response object or an exception, never the          *)
(* argument itself when that is no response.                               *)
(***************************************************************************)
C21_CoercionByShape ==
    \A t \in Threads : \A j \in Calls(t, "make_response") :
        LET o == log[t][j].out IN
        /\ rv[t].type = "str" =>
              /\ o.raised = NoExc /\ o.value.type = "Response"
              /\ o.value.body = rv[t].body /\ o.value.status = 200
        /\ rv[t].type = "tuple" =>
              /\ o.raised = NoExc /\ o.value.type = "Response"
              /\ o.value.body = rv[t].body /\ o.value.status = rv[t].status
        /\ rv[t].type = "HTTPException" =>
              /\ o.raised = NoExc /\ o.value.type = "Response"
              /\ o.value.status = rv[t].status
        /\ rv[t].type \in {"NoneType", "int"} => o.raised = TypeError
        /\ o.raised # NoExc \/ o.value.type = "Response"
        /\ (rv[t].type # "Response" /\ o.raised = NoExc) => o.value # rv[t]

\* the view returned ("hello", 201) and the dispatch returned the response
\* with that body and status
C21_Witness ==
    /\ Returned(MainThread)
    /\ rv[MainThread] = Tuple("hello", 201)
    /\ LastCall(MainThread).name = "send"
    /\ response[MainThread].body = "hello"
    /\ response[MainThread].status = 201

(***************************************************************************)
(* C22: in one request context the first call of get_flashed_messages      *)
(* takes the pending messages out of the session and returns them, and     *)
(* every later call of the request returns the same messages, also when    *)
(* flash was called in between.                                            *)
(***************************************************************************)
\* positions of the calls of get_flashed_messages of the dispatch
Gets(t) ==
    {i \in 1..Len(flashlog[t]) : flashlog[t][i].op = "get_flashed_messages"}

\* the messages flashed by the calls at the positions from a to b, in order
Flashed(t, a, b) ==
    LET calls == SelectSeq(SubSeq(flashlog[t], a, b),
                           LAMBDA c : c.op = "flash")
    IN [k \in 1..Len(calls) |-> calls[k].result[1]]

FirstGet(t) == CHOOSE i \in Gets(t) : \A j \in Gets(t) : i <= j

C22_FlashedMessagesPulledOnce ==
    \A t \in Threads : (Gets(t) # {} /\ pc[t] \notin {"idle"}) =>
        LET first == FirstGet(t) IN
        /\ flashlog[t][first].result = cookie0[t] \o Flashed(t, 1, first - 1)
        /\ \A i \in Gets(t) : flashlog[t][i].result = flashlog[t][first].result
        /\ ctxs[ctx[t]].session.flashes = Flashed(t, first + 1, Len(flashlog[t]))

\* the request came with a message, the view got it, flashed another and
\* got the first one again
C22_Witness ==
    /\ Len(cookie0[MainThread]) = 1
    /\ Len(flashlog[MainThread]) = 3
    /\ flashlog[MainThread][1].op = "get_flashed_messages"
    /\ flashlog[MainThread][2].op = "flash"
    /\ flashlog[MainThread][3].op = "get_flashed_messages"
    /\ flashlog[MainThread][3].result = cookie0[MainThread]
    /\ flashlog[MainThread][3].at = "view"

(***************************************************************************)
(* C25: flashed messages reach the next request, in order and once.  The   *)
(* messages flashed in requests that return normally are what the first    *)
(* get_flashed_messages of a later request with the saved session          *)
(* returns, in the order they were flashed, and when that request has      *)
(* returned normally they are no longer in the session; a message flashed  *)
(* after get_flashed_messages was called in the same request is not lost,  *)
(* it stays in the session for the request after.                          *)
(***************************************************************************)
\* the messages that wait for the next request when this one is over
Pending(t) ==
    IF Gets(t) = {} THEN cookie0[t] \o Flashed(t, 1, Len(flashlog[t]))
    ELSE Flashed(t, FirstGet(t) + 1, Len(flashlog[t]))

C25_FlashedMessagesDeliveredOnce ==
    \A t \in Threads :
        /\ Gets(t) # {} =>
              flashlog[t][FirstGet(t)].result =
                  cookie0[t] \o Flashed(t, 1, FirstGet(t) - 1)
        /\ Returned(t) => cookie = Pending(t)

(***************************************************************************)
(* C23: match_request stores the outcome of routing on the request object  *)
(* in both cases: the endpoint and the view arguments when a rule matches, *)
(* the exception raised when none does.                                    *)
(***************************************************************************)
\* the request of the dispatch on thread t as it was constructed
AsConstructed(t) == Request(ctx[t], ctxs[ctx[t]].request.path)

C23_RoutingOutcomeStored ==
    \A t \in Threads : \A m \in Calls(t, "match") :
        IF log[t][m].out.raised = NoExc
        THEN /\ ctxs[ctx[t]].request.endpoint # "None"
             /\ ctxs[ctx[t]].request.view_args # "None"
        ELSE ctxs[ctx[t]].request # AsConstructed(t)

(***************************************************************************)
(* C24: when a rule matches, the endpoint and the values of the variable   *)
(* parts of the path are on the request object before the view function   *)
(* is called; the function called is the one registered for that endpoint  *)
(* and it gets those values as keyword arguments.  When a before-request   *)
(* function short-circuits or no rule matches, endpoint and view_args of   *)
(* the request stay None.                                                  *)
(***************************************************************************)
\* what routing an application with the rules RoutingRules yields
Routed(path) ==
    CASE path = "/" -> <<"index", "{}">>
      [] path = "/user/a" -> <<"user", "{'name': 'a'}">>
      [] OTHER -> <<"None", "None">>

C24_EndpointRecordedThenViewCalled ==
    \A t \in Threads : Dispatching(t) =>
        LET r == ctxs[ctx[t]].request
            matched == \E m \in Calls(t, "match") : log[t][m].out.raised = NoExc
        IN /\ <<r.endpoint, r.view_args>> =
                 IF matched THEN Routed(r.path) ELSE <<"None", "None">>
           /\ \A v \in Calls(t, "view") :
                 /\ log[t][v - 1].name = "match"
                 /\ log[t][v - 1].out.raised = NoExc
                 /\ log[t][v].arg = Routed(r.path)
                 /\ log[t][v].arg[1] \in view_functions
           /\ (ShortCircuited(t) \/ ~matched) => ~Called(t, "view")

\* the path /user/a was routed to the view function user, which was called
\* with name = 'a', and the dispatch returned
C24_Witness ==
    /\ Returned(MainThread)
    /\ ctxs[ctx[MainThread]].request.path = "/user/a"
    /\ \E v \in Calls(MainThread, "view") :
          log[MainThread][v].arg = <<"user", "{'name': 'a'}">>
    /\ ctxs[ctx[MainThread]].request.endpoint = "user"

(***************************************************************************)
(* C26: a dispatch calls an error handler at most once, and what the       *)
(* handler raises is not handled again: when the handler called for an     *)
(* HTTPException or for the 500 case raises, whatever it raises, that      *)
(* exception leaves dispatch_request and no error handler is looked up     *)
(* for it.                                                                 *)
(***************************************************************************)
C26_HandlerFailurePropagates ==
    \A t \in Threads :
        /\ Cardinality(Calls(t, "errorhandler")) <= 1
        /\ \A h \in Calls(t, "errorhandler") :
              log[t][h].out.raised # NoExc =>
                  /\ h = Len(log[t]) \/ (h = Len(log[t]) - 1 /\ Called(t, "pop"))
                  /\ exc[t] = log[t][h].out.raised
                  /\ pc[t] \in {"exit", "raised"}

\* debug off, handlers for 404 and 500: the 404 handler raised an exception
\* that is no HTTPException, and that exception left the dispatch
C26_Witness ==
    /\ Raised(MainThread) /\ ~debug
    /\ error_handlers = {404, 500}
    /\ exc[MainThread] = Exception
    /\ LastCall(MainThread).name = "errorhandler"
    /\ LastCall(MainThread).arg = 404

(***************************************************************************)
(* C27: when an exception leaves the dispatch because a before-request     *)
(* function, the view (debug on or no 500 handler), an error handler or    *)
(* make_response raised it, the session has not been saved and no          *)
(* after-request function has been called; and when an after-request       *)
(* function raises, the after-request functions behind it are not called.  *)
(* (The exception that leaves is the one of the last call of the           *)
(* dispatch.)                                                              *)
(***************************************************************************)
C27_NoPostProcessingAfterFailure ==
    \A t \in Threads :
        /\ \A i \in 1..Len(log[t]) :
              (/\ log[t][i].name \in {"before", "view", "errorhandler",
                                     "make_response"}
               /\ log[t][i].out.raised # NoExc
               /\ \A j \in (i + 1)..Len(log[t]) : log[t][j].name = "pop"
               /\ pc[t] \in {"exit", "raised"}) =>
                  /\ exc[t] = log[t][i].out.raised
                  /\ ~Called(t, "save_session")
                  /\ ~Called(t, "after")
                  /\ ~Called(t, "send")
        /\ \A a \in Calls(t, "after") :
              log[t][a].out.raised # NoExc =>
                  /\ \A b \in Calls(t, "after") : b <= a
                  /\ Cardinality(Calls(t, "after")) = log[t][a].arg
                  /\ pc[t] \in {"exit", "raised"}

\* the first of two after-request functions raised and the dispatch raised
\* without calling the second
C27_Witness ==
    /\ Raised(MainThread) /\ Len(after_request_funcs) = 2
    /\ Cardinality(Calls(MainThread, "after")) = 1
    /\ LastCall(MainThread).name = "after"
    /\ LastCall(MainThread).out.raised # NoExc

(***************************************************************************)
(* C28: in debug mode the context of a dispatch that raised stays on the   *)
(* stack of its thread through every later dispatch of the thread.  A      *)
(* later dispatch has its own context as the current one while it runs;    *)
(* when it is over the top of the stack is the stale context again.  The   *)
(* depth of the stack between dispatches is the number of dispatches of    *)
(* the thread that raised so far: it grows by one with each and never      *)
(* goes back.                                                              *)
(***************************************************************************)
\* in the with-block of wsgi_app: pushed and not yet at __exit__
InBlock(t) ==
    pc[t] \notin {"idle", "enter", "returned", "raised"}

C28_RetainedStaysBelow ==
    \A t \in Threads : debug =>
        /\ InBlock(t) =>
              /\ LocalStack(stack, t) = Append(stack0[t], ctx[t])
              /\ Resolve(t).request = ctx[t]
        /\ Returned(t) => LocalStack(stack, t) = stack0[t]
        /\ Raised(t) => LocalStack(stack, t) = Append(stack0[t], ctx[t])

\* a step changes a stack only by pushing the context of the dispatch or by
\* popping it when the dispatch returns
C28_OnlyOwnContextMoves ==
    \A t \in Threads : (debug /\ stack'[t] # stack[t]) =>
        \/ pc[t] = "enter" /\ stack'[t] = Append(stack[t], ctx[t])
        \/ /\ pc[t] = "exit" /\ exc[t] = NoExc
           /\ stack[t] = Append(stack'[t], ctx[t])

C28_DebugRetentionAccumulates ==
    [] C28_RetainedStaysBelow /\ [][C28_OnlyOwnContextMoves]_vars

\* debug mode: the first dispatch of the thread raised, the second one
\* returned, and the context of the first is the top of the stack
C28_Witness ==
    /\ debug /\ Returned("t1") /\ ctx["t1"] = 2
    /\ stack["t1"] = <<1>> /\ stack0["t1"] = <<1>>
    /\ Resolve("t1").request = 1

====
